---- MODULE Spec2Model ----
(***************************************************************************)
(* Model of go-imagewatermark: configuration validation, the watermark     *)
(* transform pipeline, single and grid positioning, source-over            *)
(* compositing and the four apply operations.                              *)
(*                                                                         *)
(* Revision modelled: single.go:1-161 (ApplySingle / BatchApplySingle),    *)
(* unnamed/part_000 (configuration), unnamed/part_004:106-326 (helpers),   *)
(* utils.go:253-452 (ApplyGrid / BatchApplyGrid / grid helpers).           *)
(*                                                                         *)
(* Number representation.  OpacityAlpha is a float64 in the code; it is    *)
(* held here in hundredths (1.0 is 100).  WatermarkWidthPercent and        *)
(* RotationDegrees are held as whole numbers.  Only values whose float64   *)
(* arithmetic is exact in getNewWatermarkWidth are drawn.                  *)
(***************************************************************************)
EXTENDS Integers, Sequences, FiniteSets, TLC

\* ------------------------------------------------------------------ bounds
\* Largest base image side drawn by the positioning specification.
MaxBase == 5
\* Largest prepared watermark side drawn by the positioning specification.
MaxWm == 4
\* Largest spacing drawn by the positioning specification.
MaxSpacing == 2
\* Largest base image side drawn by the grid specification.
MaxGridBase == 4
\* Largest absolute grid offset / spacing drawn by the grid specification.
MaxGridShift == 2

\* Largest number of base images handed to a batch operation.
MaxBatch == 2
\* Largest alignment value drawn by the positioning specification (the
\* declared alignments are 0..3; larger values are unrecognised ones).
MaxAlign == 4
\* Largest spacing drawn by the end-to-end specification.
MaxE2ESpacing == 5

\* Largest width and height of a canvas drawn on directly.
MaxCanvas == 3

\* How far outside the canvas a drawing point may lie.
MaxPoint == 2

\* ----------------------------------------------------------- Go arithmetic
\* Go's integer division truncates toward zero (TLA+ \div floors).
TruncDiv(a, b) ==
    IF b = 0 THEN 0
    ELSE IF (a >= 0) = (b > 0) \/ a = 0
         THEN (IF a >= 0 THEN a ELSE -a) \div (IF b > 0 THEN b ELSE -b)
         ELSE -((IF a >= 0 THEN a ELSE -a) \div (IF b > 0 THEN b ELSE -b))

Max2(a, b) == IF a >= b THEN a ELSE b

Min2(a, b) == IF a <= b THEN a ELSE b

\* ------------------------------------------------------------ alignments
VerticalTop == 0
VerticalMiddle == 1
VerticalBottom == 2
VerticalRandom == 3
HorizontalLeft == 0
HorizontalMiddle == 1
HorizontalRight == 2
HorizontalRandom == 3

\* ------------------------------------------------------------- validation
NoError == "nil"

\* Mutant: the rotation check placed after the MaxWorkers check.
GeneralConfigValidateWorkersFirst(c) ==
    IF c.OpacityAlpha <= 0 \/ c.OpacityAlpha > 100 THEN "opacity"
    ELSE IF c.WatermarkWidthPercent <= 0 \/ c.WatermarkWidthPercent > 100 THEN "width"
    ELSE IF c.MaxWorkers < 0 THEN "maxworkers"
    ELSE IF c.RotationDegrees < 0 \/ c.RotationDegrees > 360 THEN "rotation"
    ELSE NoError

\* GeneralConfig.validate: the first violated check, in source order.
GeneralConfigValidate(c) ==
    IF c.OpacityAlpha <= 0 \/ c.OpacityAlpha > 100 THEN "opacity"
    ELSE IF c.WatermarkWidthPercent <= 0 \/ c.WatermarkWidthPercent > 100 THEN "width"
    ELSE IF c.RotationDegrees < 0 \/ c.RotationDegrees > 360 THEN "rotation"
    ELSE IF c.MaxWorkers < 0 THEN "maxworkers"
    ELSE NoError

\* Mutant: the spacing check dropped.
SingleConfigValidateNoSpacing(c) ==
    GeneralConfigValidate(c)

\* SingleConfig.validate: the embedded GeneralConfig first, then Spacing.
SingleConfigValidate(c) ==
    IF GeneralConfigValidate(c) # NoError THEN GeneralConfigValidate(c)
    ELSE IF c.Spacing < 0 THEN "spacing"
    ELSE NoError

\* GridConfig.validate: only the embedded GeneralConfig.
GridConfigValidate(c) ==
    GeneralConfigValidate(c)

\* ------------------------------------------------------------ positioning
\* rand.Intn(n): panics when n <= 0, else any integer of 0..n-1.
\* An outcome is [v, panic]; a panic carries no value.
Intn(n) ==
    IF n <= 0 THEN {[v |-> 0, panic |-> TRUE]}
    ELSE {[v |-> k, panic |-> FALSE] : k \in 0..(n - 1)}

\* Mutant: Middle computed as inSize/2 - wmSize/2 (two truncations).
AxisPositionHalves(inSize, wmSize, align, spacing) ==
    IF align = 0 THEN {[c |-> spacing, draws |-> <<>>, panic |-> FALSE]}
    ELSE IF align = 2
    THEN {[c |-> inSize - wmSize - spacing, draws |-> <<>>, panic |-> FALSE]}
    ELSE IF align = 3
    THEN IF inSize - wmSize - spacing > spacing
         THEN {[c |-> r.v + spacing,
                draws |-> <<(inSize - wmSize - spacing) - spacing + 1>>,
                panic |-> r.panic] :
               r \in Intn((inSize - wmSize - spacing) - spacing + 1)}
         ELSE {[c |-> spacing, draws |-> <<>>, panic |-> FALSE]}
    ELSE {[c |-> TruncDiv(inSize, 2) - TruncDiv(wmSize, 2),
           draws |-> <<>>, panic |-> FALSE]}

\* Mutant: the random coordinate is int(r * (inSize - wmSize)) + spacing
\* for a real r of [0, 1).
AxisPositionScaled(inSize, wmSize, align, spacing) ==
    IF align = 0 THEN {[c |-> spacing, draws |-> <<>>, panic |-> FALSE]}
    ELSE IF align = 2
    THEN {[c |-> inSize - wmSize - spacing, draws |-> <<>>, panic |-> FALSE]}
    ELSE IF align = 3
    THEN {[c |-> k + spacing, draws |-> <<>>, panic |-> FALSE] :
            k \in IF inSize - wmSize > 0 THEN 0..(inSize - wmSize - 1)
                  ELSE Min2(inSize - wmSize + 1, 0)..0}
    ELSE {[c |-> TruncDiv(inSize - wmSize, 2), draws |-> <<>>, panic |-> FALSE]}

\* Mutant: the random draw made without the `maxX > minX` guard.
AxisPositionNoGuard(inSize, wmSize, align, spacing) ==
    IF align = 0 THEN {[c |-> spacing, draws |-> <<>>, panic |-> FALSE]}
    ELSE IF align = 2
    THEN {[c |-> inSize - wmSize - spacing, draws |-> <<>>, panic |-> FALSE]}
    ELSE IF align = 3
    THEN {[c |-> r.v + spacing,
           draws |-> <<(inSize - wmSize - spacing) - spacing + 1>>,
           panic |-> r.panic] :
          r \in Intn((inSize - wmSize - spacing) - spacing + 1)}
    ELSE {[c |-> TruncDiv(inSize - wmSize, 2), draws |-> <<>>, panic |-> FALSE]}

\* One switch of getWatermarkPosition.
\* The result is the set of outcomes [c, draws, panic]: the coordinate, the
\* arguments handed to rand.Intn, and whether rand.Intn panicked.  The
\* horizontal and the vertical switch are the same code over the width and
\* the height, and the constants of both alignment types are 0..3.
AxisPosition(inSize, wmSize, align, spacing) ==
    IF align = 0 THEN {[c |-> spacing, draws |-> <<>>, panic |-> FALSE]}
    ELSE IF align = 1
    THEN {[c |-> TruncDiv(inSize - wmSize, 2), draws |-> <<>>, panic |-> FALSE]}
    ELSE IF align = 2
    THEN {[c |-> inSize - wmSize - spacing, draws |-> <<>>, panic |-> FALSE]}
    ELSE IF align = 3
    THEN IF inSize - wmSize - spacing > spacing
         THEN {[c |-> r.v + spacing,
                draws |-> <<(inSize - wmSize - spacing) - spacing + 1>>,
                panic |-> r.panic] :
               r \in Intn((inSize - wmSize - spacing) - spacing + 1)}
         ELSE {[c |-> spacing, draws |-> <<>>, panic |-> FALSE]}
    ELSE {[c |-> TruncDiv(inSize - wmSize, 2), draws |-> <<>>, panic |-> FALSE]}

\* Mutant: an unrecognised alignment on either axis returns the zero point.
getWatermarkPositionZeroDefault(watermarkImage, inputImage, verticalAlign, horizontalAlign, spacing) ==
    IF horizontalAlign \notin 0..3 \/ verticalAlign \notin 0..3
    THEN {[X |-> 0, Y |-> 0, drawsX |-> <<>>, drawsY |-> <<>>, panic |-> FALSE]}
    ELSE {[X |-> h.c, Y |-> v.c, drawsX |-> h.draws, drawsY |-> v.draws,
           panic |-> h.panic \/ v.panic] :
            h \in AxisPosition(inputImage.w, watermarkImage.w, horizontalAlign, spacing),
            v \in AxisPosition(inputImage.h, watermarkImage.h, verticalAlign, spacing)}

\* getWatermarkPosition(watermarkImage, inputImage, verticalAlign,
\* horizontalAlign, spacing): the horizontal switch, then the vertical one.
getWatermarkPosition(watermarkImage, inputImage, verticalAlign, horizontalAlign, spacing) ==
    {[X |-> h.c, Y |-> v.c, drawsX |-> h.draws, drawsY |-> v.draws,
      panic |-> h.panic \/ v.panic] :
        h \in AxisPosition(inputImage.w, watermarkImage.w, horizontalAlign, spacing),
        v \in AxisPosition(inputImage.h, watermarkImage.h, verticalAlign, spacing)}

\* ------------------------------------------------------------------ images
\* An image is [w, h, pix, model]: pix holds the pixels row by row, pixel
\* (x, y) at index y * w + x, each <<r, g, b, a>> with 8 bits a channel;
\* model is "NRGBA" (straight alpha: inputs, watermarks) or "RGBA"
\* (premultiplied alpha: canvases).
PixAt(img, x, y) == img.pix[y * img.w + x]

EmptyImage == [w |-> 0, h |-> 0, pix |-> <<>>, model |-> "NRGBA"]

Uniform(w, h, col) ==
    [w |-> w, h |-> h, model |-> "NRGBA", pix |-> [i \in 0..(w * h - 1) |-> col]]

\* getNewWatermarkWidth: int(float64(width) * (percent / 100)).
getNewWatermarkWidth(originalImage, watermarkWidthPercentage) ==
    (originalImage.w * watermarkWidthPercentage) \div 100

\* color.NRGBA.RGBA() shifted right by 8: the premultiplied 8-bit channel.
Premul8(ch, a) == (((ch * 257) * a) \div 255) \div 256

\* applyOpacity: a new image whose alpha is uint8(float64(a>>8) * opacity)
\* and whose colour channels are the >>8 of img.At(x, y).RGBA().
applyOpacity(img, opacityAlpha) ==
    [w |-> img.w, h |-> img.h, model |-> "NRGBA",
     pix |-> [i \in DOMAIN img.pix |->
                <<Premul8(img.pix[i][1], img.pix[i][4]),
                  Premul8(img.pix[i][2], img.pix[i][4]),
                  Premul8(img.pix[i][3], img.pix[i][4]),
                  (((img.pix[i][4] * 257) \div 256) * opacityAlpha) \div 100>>]]

\* rotateImage: imaging.Rotate with a transparent background.  Only the
\* exact quarter turns are drawn (counter-clockwise; 0 and 360 clone).
\* The new image is img.h wide for 90 and 270 degrees.
rotateImage(img, rotationDegrees) ==
    IF rotationDegrees % 360 = 90
    THEN [w |-> img.h, h |-> img.w, model |-> "NRGBA",
          pix |-> [i \in 0..(img.w * img.h - 1) |->
                     PixAt(img, img.w - 1 - (i \div img.h), i % img.h)]]
    ELSE IF rotationDegrees % 360 = 180
    THEN [w |-> img.w, h |-> img.h, model |-> "NRGBA",
          pix |-> [i \in 0..(img.w * img.h - 1) |->
                     PixAt(img, img.w - 1 - (i % img.w), img.h - 1 - (i \div img.w))]]
    ELSE IF rotationDegrees % 360 = 270
    THEN [w |-> img.h, h |-> img.w, model |-> "NRGBA",
          pix |-> [i \in 0..(img.w * img.h - 1) |->
                     PixAt(img, i \div img.h, img.h - 1 - (i % img.h))]]
    ELSE img

\* Height chosen by imaging.Resize(img, width, 0, filter):
\* max(1, floor(width * srcH / srcW + 0.5)).
ResizeHeight(img, width) ==
    Max2(1, (2 * width * img.h + img.w) \div (2 * img.w))

\* resizeWatermark: imaging.Resize to the width getNewWatermarkWidth gives,
\* height 0 (keep the aspect ratio).  A zero width or an empty source gives
\* the empty image; equal sizes give a copy.  The resampling kernel is an
\* external primitive: the pixels of a resized image are taken here from
\* the nearest source pixel.
resizeWatermark(watermarkImg, baseImage, config) ==
    LET width == getNewWatermarkWidth(baseImage, config.WatermarkWidthPercent) IN
    IF width <= 0 \/ watermarkImg.w <= 0 \/ watermarkImg.h <= 0 THEN EmptyImage
    ELSE LET height == ResizeHeight(watermarkImg, width) IN
         IF width = watermarkImg.w /\ height = watermarkImg.h THEN watermarkImg
         ELSE [w |-> width, h |-> height, model |-> "NRGBA",
               pix |-> [i \in 0..(width * height - 1) |->
                          PixAt(watermarkImg,
                                ((2 * (i % width) + 1) * watermarkImg.w) \div (2 * width),
                                ((2 * (i \div width) + 1) * watermarkImg.h) \div (2 * height))]]

\* generateBaseCanvas: a new RGBA canvas of the input's bounds with the
\* input drawn onto it with draw.Src (straight alpha is premultiplied; an
\* input that is already an RGBA canvas is copied as it is).
generateBaseCanvas(inputImg) ==
    IF inputImg.model = "RGBA" THEN inputImg
    ELSE [w |-> inputImg.w, h |-> inputImg.h, model |-> "RGBA",
          pix |-> [i \in DOMAIN inputImg.pix |->
                     <<Premul8(inputImg.pix[i][1], inputImg.pix[i][4]),
                       Premul8(inputImg.pix[i][2], inputImg.pix[i][4]),
                       Premul8(inputImg.pix[i][3], inputImg.pix[i][4]),
                       (inputImg.pix[i][4] * 257) \div 256>>]]

\* One channel of draw.Over from a straight-alpha source pixel onto a
\* premultiplied destination channel d (image/draw, NRGBA over RGBA):
\*   sa := A * 0x101;  sr := S * sa / 0xff;  a := (0xffff - sa) * 0x101
\*   d = uint8((d * a / 0xffff + sr) >> 8)
\* d * a / 0xffff is written with the common factor 0x101 cancelled, which
\* leaves the quotient unchanged and keeps the product small.
OverChannel(s, sa, d) ==
    ((d * 257 * (255 - sa)) \div 255 + (s * (sa * 257)) \div 255) \div 256

OverAlpha(sa, d) ==
    ((d * 257 * (255 - sa)) \div 255 + sa * 257) \div 256

OverPixel(src, dst) ==
    <<OverChannel(src[1], src[4], dst[1]) % 256,
      OverChannel(src[2], src[4], dst[2]) % 256,
      OverChannel(src[3], src[4], dst[3]) % 256,
      OverAlpha(src[4], dst[4]) % 256>>

\* Whether canvas pixel i lies in the rectangle [pos, pos + size).
InRect(canvas, i, pos, size) ==
    /\ (i % canvas.w) >= pos.X /\ (i % canvas.w) < pos.X + size.w
    /\ (i \div canvas.w) >= pos.Y /\ (i \div canvas.w) < pos.Y + size.h

\* Mutant: the destination rectangle is clipped to the canvas and the
\* watermark is then read from its own origin, not from the clipped corner.
drawWatermarkAtPositionOrigin(canvas, watermarkImg, pos) ==
    [canvas EXCEPT !.pix =
        [i \in DOMAIN canvas.pix |->
            IF InRect(canvas, i, pos, watermarkImg)
            THEN OverPixel(PixAt(watermarkImg, (i % canvas.w) - Max2(pos.X, 0),
                                 (i \div canvas.w) - Max2(pos.Y, 0)),
                           canvas.pix[i])
            ELSE canvas.pix[i]]]

\* Mutant: the destination rectangle is anchored one pixel further right
\* and down.
drawWatermarkAtPositionShifted(canvas, watermarkImg, pos) ==
    [canvas EXCEPT !.pix =
        [i \in DOMAIN canvas.pix |->
            IF InRect(canvas, i, [X |-> pos.X + 1, Y |-> pos.Y + 1], watermarkImg)
            THEN OverPixel(PixAt(watermarkImg, (i % canvas.w) - pos.X - 1,
                                 (i \div canvas.w) - pos.Y - 1),
                           canvas.pix[i])
            ELSE canvas.pix[i]]]

\* drawWatermarkAtPosition: draw.Draw with draw.Over into the rectangle
\* [pos, pos + size of the watermark), clipped to the canvas.
drawWatermarkAtPosition(canvas, watermarkImg, pos) ==
    [canvas EXCEPT !.pix =
        [i \in DOMAIN canvas.pix |->
            IF InRect(canvas, i, pos, watermarkImg)
            THEN OverPixel(PixAt(watermarkImg, (i % canvas.w) - pos.X, (i \div canvas.w) - pos.Y),
                           canvas.pix[i])
            ELSE canvas.pix[i]]]

\* ------------------------------------------------------------------- grid
\* The x coordinates one run of `for x := start; x < limit; x += step`
\* visits, for step > 0.
RECURSIVE LoopCoords(_, _, _)
LoopCoords(start, limit, step) ==
    IF start < limit THEN <<start>> \o LoopCoords(start + step, limit, step)
    ELSE <<>>

\* The body of the nested loops: one row of points for every y, rows in
\* the order the outer loop visits them.
RECURSIVE GridRows(_, _)
GridRows(ys, xs) ==
    IF ys = <<>> THEN <<>>
    ELSE [k \in 1..Len(xs) |-> [X |-> xs[k], Y |-> Head(ys)]] \o GridRows(Tail(ys), xs)

\* Mutant: the inner loop runs while x <= inputW.
generateGridPositionsInclusive(inputImg, watermarkImg, config) ==
    LET stepX == watermarkImg.w + config.GridSpacingX
        stepY == watermarkImg.h + config.GridSpacingY
        countX == TruncDiv(inputImg.w - config.OffsetX + stepX - 1, stepX)
        countY == TruncDiv(inputImg.h - config.OffsetY + stepY - 1, stepY)
    IN  IF config.OffsetX >= inputImg.w \/ config.OffsetY >= inputImg.h
        THEN [positions |-> <<>>, fault |-> "none"]
        ELSE IF stepX = 0 \/ stepY = 0
        THEN [positions |-> <<>>, fault |-> "divide by zero"]
        ELSE IF countX * countY <= 0
        THEN [positions |-> <<>>, fault |-> "none"]
        ELSE IF stepX < 0 \/ stepY < 0
        THEN [positions |-> <<>>, fault |-> "no progress"]
        ELSE [positions |-> GridRows(LoopCoords(config.OffsetY, inputImg.h, stepY),
                                     LoopCoords(config.OffsetX, inputImg.w + 1, stepX)),
              fault |-> "none"]

\* Mutant: only tiles that fit the canvas whole are emitted.
generateGridPositionsFullTiles(inputImg, watermarkImg, config) ==
    LET stepX == watermarkImg.w + config.GridSpacingX
        stepY == watermarkImg.h + config.GridSpacingY
        countX == TruncDiv(inputImg.w - config.OffsetX + stepX - 1, stepX)
        countY == TruncDiv(inputImg.h - config.OffsetY + stepY - 1, stepY)
    IN  IF config.OffsetX >= inputImg.w \/ config.OffsetY >= inputImg.h
        THEN [positions |-> <<>>, fault |-> "none"]
        ELSE IF stepX = 0 \/ stepY = 0
        THEN [positions |-> <<>>, fault |-> "divide by zero"]
        ELSE IF countX * countY <= 0
        THEN [positions |-> <<>>, fault |-> "none"]
        ELSE IF stepX < 0 \/ stepY < 0
        THEN [positions |-> <<>>, fault |-> "no progress"]
        ELSE [positions |-> GridRows(LoopCoords(config.OffsetY,
                                                inputImg.h - watermarkImg.h + 1, stepY),
                                     LoopCoords(config.OffsetX,
                                                inputImg.w - watermarkImg.w + 1, stepX)),
              fault |-> "none"]

\* Mutant: the point counts are computed before the offsets are tested.
generateGridPositionsCountFirst(inputImg, watermarkImg, config) ==
    LET stepX == watermarkImg.w + config.GridSpacingX
        stepY == watermarkImg.h + config.GridSpacingY
        countX == TruncDiv(inputImg.w - config.OffsetX + stepX - 1, stepX)
        countY == TruncDiv(inputImg.h - config.OffsetY + stepY - 1, stepY)
    IN  IF stepX = 0 \/ stepY = 0
        THEN [positions |-> <<>>, fault |-> "divide by zero"]
        ELSE IF config.OffsetX >= inputImg.w \/ config.OffsetY >= inputImg.h
        THEN [positions |-> <<>>, fault |-> "none"]
        ELSE IF countX * countY <= 0
        THEN [positions |-> <<>>, fault |-> "none"]
        ELSE IF stepX < 0 \/ stepY < 0
        THEN [positions |-> <<>>, fault |-> "no progress"]
        ELSE [positions |-> GridRows(LoopCoords(config.OffsetY, inputImg.h, stepY),
                                     LoopCoords(config.OffsetX, inputImg.w, stepX)),
              fault |-> "none"]

\* generateGridPositions.  The result is [positions, fault]: fault is
\* "divide by zero" when a step is 0 (the point count divides by the step),
\* "no progress" when the loops are entered with a negative step (the loop
\* variable moves away from its limit and the slice grows without end),
\* and "none" when the function returns.
generateGridPositions(inputImg, watermarkImg, config) ==
    LET stepX == watermarkImg.w + config.GridSpacingX
        stepY == watermarkImg.h + config.GridSpacingY
        countX == TruncDiv(inputImg.w - config.OffsetX + stepX - 1, stepX)
        countY == TruncDiv(inputImg.h - config.OffsetY + stepY - 1, stepY)
    IN  IF config.OffsetX >= inputImg.w \/ config.OffsetY >= inputImg.h
        THEN [positions |-> <<>>, fault |-> "none"]
        ELSE IF stepX = 0 \/ stepY = 0
        THEN [positions |-> <<>>, fault |-> "divide by zero"]
        ELSE IF countX * countY <= 0
        THEN [positions |-> <<>>, fault |-> "none"]
        ELSE IF stepX < 0 \/ stepY < 0
        THEN [positions |-> <<>>, fault |-> "no progress"]
        ELSE [positions |-> GridRows(LoopCoords(config.OffsetY, inputImg.h, stepY),
                                     LoopCoords(config.OffsetX, inputImg.w, stepX)),
              fault |-> "none"]

\* Mutant: the point count rounds down, not up.
totalPointsFloor(inputImg, watermarkImg, config) ==
    LET stepX == watermarkImg.w + config.GridSpacingX
        stepY == watermarkImg.h + config.GridSpacingY
    IN  TruncDiv(inputImg.w - config.OffsetX, stepX)
          * TruncDiv(inputImg.h - config.OffsetY, stepY)

\* `totalPoints := countX * countY` of generateGridPositions, the capacity
\* the positions slice is made with (both steps non-zero).
totalPoints(inputImg, watermarkImg, config) ==
    LET stepX == watermarkImg.w + config.GridSpacingX
        stepY == watermarkImg.h + config.GridSpacingY
    IN  TruncDiv(inputImg.w - config.OffsetX + stepX - 1, stepX)
          * TruncDiv(inputImg.h - config.OffsetY + stepY - 1, stepY)

\* generateGridPositions of the earlier revision: the two loops alone,
\* stepping by grid spacing + watermark size, no offset test and no point
\* count.  A loop that is entered with a step of 0 or less never ends.
generateGridPositionsRawStep(inputImg, watermarkImg, config) ==
    LET stepX == config.GridSpacingX + watermarkImg.w
        stepY == config.GridSpacingY + watermarkImg.h
    IN  IF config.OffsetY >= inputImg.h
        THEN [positions |-> <<>>, fault |-> "none"]
        ELSE IF config.OffsetX < inputImg.w /\ stepX <= 0
        THEN [positions |-> <<>>, fault |-> "no progress"]
        ELSE IF stepY <= 0
        THEN [positions |-> <<>>, fault |-> "no progress"]
        ELSE [positions |-> GridRows(LoopCoords(config.OffsetY, inputImg.h, stepY),
                                     LoopCoords(config.OffsetX, inputImg.w, stepX)),
              fault |-> "none"]

\* The loop of applyGridWatermarks: the positions drawn in slice order.
RECURSIVE DrawAll(_, _, _)
DrawAll(canvas, watermarkImg, positions) ==
    IF positions = <<>> THEN canvas
    ELSE DrawAll(drawWatermarkAtPosition(canvas, watermarkImg, Head(positions)),
                 watermarkImg, Tail(positions))

\* Mutant: the positions are drawn from the last one to the first.
applyGridWatermarksReversed(inputImg, watermarkImg, positions) ==
    DrawAll(generateBaseCanvas(inputImg), watermarkImg,
            [k \in 1..Len(positions) |-> positions[Len(positions) + 1 - k]])

\* applyGridWatermarks: a fresh canvas of the input, then every position.
applyGridWatermarks(inputImg, watermarkImg, positions) ==
    DrawAll(generateBaseCanvas(inputImg), watermarkImg, positions)

\* ------------------------------------------------------------------ state
VARIABLES
    op,            \* the operation called
    config,        \* its configuration (the fields of SingleConfig and GridConfig)
    inputImgs,     \* its base image(s); the single operations take one
    watermarkImg,  \* its watermark
    pc,            \* "call", "spawning", "waiting", "returned", "panicked", "hung"
    ret,           \* what the operation returned: [images, isNil, err]
    trace,         \* the steps executed so far: [who, step], who = 0 for the caller
    preparedWM,    \* the variable preparedWM of the operation
    position,      \* the outcome of getWatermarkPosition in ApplySingle
    positions,     \* the outcome of generateGridPositions in ApplyGrid
    next,          \* the loop index i of a batch operation
    workers,       \* state of each launched goroutine of a batch operation
    sem,           \* number of tokens in the channel sem
    results        \* the slice results of a batch operation

vars == <<op, config, inputImgs, watermarkImg, pc, ret, trace, preparedWM,
          position, positions, next, workers, sem, results>>

\* ------------------------------------------------------------ return values
NilImage == [w |-> 0, h |-> 0, pix |-> <<>>, model |-> "nil"]

NoErr == [msg |-> "", cause |-> NoError]

NoReturn == [images |-> <<>>, isNil |-> TRUE, err |-> NoErr]

NoPosition == [X |-> 0, Y |-> 0, drawsX |-> <<>>, drawsY |-> <<>>, panic |-> FALSE]

NoPositions == [positions |-> <<>>, fault |-> "none"]

\* The value of runtime.NumCPU() on the machine the calls run on.
NumCPU == 2

\* ---------------------------------------------------------- pipeline steps
\* A pipeline value is [img, trace]: the watermark so far and the steps run.
Step(st, who, name, img) ==
    [img |-> img, trace |-> Append(st.trace, [who |-> who, step |-> name])]

\* Mutant: the opacity is applied again after the rotation.
PrepareWatermarkTwice(st, c) ==
    LET a == IF c.OpacityAlpha < 100
             THEN Step(st, 0, "applyOpacity", applyOpacity(st.img, c.OpacityAlpha))
             ELSE st
        b == IF c.RotationDegrees # 0
             THEN Step(a, 0, "rotateImage", rotateImage(a.img, c.RotationDegrees))
             ELSE a
    IN  IF c.OpacityAlpha < 100
        THEN Step(b, 0, "applyOpacity", applyOpacity(b.img, c.OpacityAlpha))
        ELSE b

\* `if OpacityAlpha < 1 { applyOpacity }; if RotationDegrees != 0 { rotateImage }`
PrepareWatermark(st, c) ==
    LET a == IF c.OpacityAlpha < 100
             THEN Step(st, 0, "applyOpacity", applyOpacity(st.img, c.OpacityAlpha))
             ELSE st
    IN  IF c.RotationDegrees # 0
        THEN Step(a, 0, "rotateImage", rotateImage(a.img, c.RotationDegrees))
        ELSE a

\* `preparedWM = resizeWatermark(preparedWM, inputImg, config.GeneralConfig)`
ResizeStep(st, who, baseImage, c) ==
    Step(st, who, "resizeWatermark", resizeWatermark(st.img, baseImage, c))

\* Mutant: the base image and the watermark handed over in swapped roles.
SinglePositionSwapped(preparedImg, inputImg, c) ==
    getWatermarkPosition(inputImg, preparedImg, c.VerticalAlign, c.HorizontalAlign, c.Spacing)

\* The call of getWatermarkPosition in ApplySingle and BatchApplySingle.
SinglePosition(preparedImg, inputImg, c) ==
    getWatermarkPosition(preparedImg, inputImg, c.VerticalAlign, c.HorizontalAlign, c.Spacing)

WrapErr(msg, cause) == [msg |-> msg, cause |-> cause]

\* ------------------------------------------------------------- operations
\* Mutant: the watermark is drawn on the input image itself, not on a
\* fresh canvas.
ApplySingleInPlace ==
    /\ pc = "call"
    /\ op = "ApplySingle"
    /\ UNCHANGED <<op, config, watermarkImg, positions, next, workers, sem, results>>
    /\ IF SingleConfigValidate(config) # NoError
       THEN /\ ret' = [images |-> <<>>, isNil |-> TRUE,
                       err |-> WrapErr("invalid single watermark configuration",
                                       SingleConfigValidate(config))]
            /\ pc' = "returned"
            /\ UNCHANGED <<trace, preparedWM, position, inputImgs>>
       ELSE LET st == ResizeStep(PrepareWatermark([img |-> watermarkImg, trace |-> trace], config),
                                 0, inputImgs[1], config)
            IN  \E p \in SinglePosition(st.img, inputImgs[1], config) :
                  /\ preparedWM' = st.img
                  /\ position' = p
                  /\ IF p.panic
                     THEN /\ pc' = "panicked"
                          /\ trace' = Append(st.trace, [who |-> 0, step |-> "getWatermarkPosition"])
                          /\ UNCHANGED <<ret, inputImgs>>
                     ELSE /\ pc' = "returned"
                          /\ trace' = st.trace \o
                                <<[who |-> 0, step |-> "getWatermarkPosition"],
                                  [who |-> 0, step |-> "drawWatermarkAtPosition"]>>
                          /\ inputImgs' = <<drawWatermarkAtPosition(inputImgs[1], st.img,
                                                                    [X |-> p.X, Y |-> p.Y])>>
                          /\ ret' = [images |-> inputImgs', isNil |-> FALSE, err |-> NoErr]

\* ApplySingle(inputImg, watermarkImg, config).
ApplySingle ==
    /\ pc = "call"
    /\ op = "ApplySingle"
    /\ UNCHANGED <<op, config, inputImgs, watermarkImg, positions, next, workers, sem, results>>
    /\ IF SingleConfigValidate(config) # NoError
       THEN /\ ret' = [images |-> <<>>, isNil |-> TRUE,
                       err |-> WrapErr("invalid single watermark configuration",
                                       SingleConfigValidate(config))]
            /\ pc' = "returned"
            /\ UNCHANGED <<trace, preparedWM, position>>
       ELSE LET st == ResizeStep(PrepareWatermark([img |-> watermarkImg, trace |-> trace], config),
                                 0, inputImgs[1], config)
            IN  \E p \in SinglePosition(st.img, inputImgs[1], config) :
                  /\ preparedWM' = st.img
                  /\ position' = p
                  /\ IF p.panic
                     THEN /\ pc' = "panicked"
                          /\ trace' = Append(st.trace, [who |-> 0, step |-> "getWatermarkPosition"])
                          /\ UNCHANGED ret
                     ELSE /\ pc' = "returned"
                          /\ trace' = st.trace \o
                                <<[who |-> 0, step |-> "getWatermarkPosition"],
                                  [who |-> 0, step |-> "generateBaseCanvas"],
                                  [who |-> 0, step |-> "drawWatermarkAtPosition"]>>
                          /\ ret' = [images |-> <<drawWatermarkAtPosition(
                                                    generateBaseCanvas(inputImgs[1]), st.img,
                                                    [X |-> p.X, Y |-> p.Y])>>,
                                     isNil |-> FALSE, err |-> NoErr]

\* ApplyGrid(inputImg, watermarkImg, config).
ApplyGrid ==
    /\ pc = "call"
    /\ op = "ApplyGrid"
    /\ UNCHANGED <<op, config, inputImgs, watermarkImg, position, next, workers, sem, results>>
    /\ IF GridConfigValidate(config) # NoError
       THEN /\ ret' = [images |-> <<>>, isNil |-> TRUE,
                       err |-> WrapErr("invalid grid watermark configuration",
                                       GridConfigValidate(config))]
            /\ pc' = "returned"
            /\ UNCHANGED <<trace, preparedWM, positions>>
       ELSE LET st == ResizeStep(PrepareWatermark([img |-> watermarkImg, trace |-> trace], config),
                                 0, inputImgs[1], config)
                g == generateGridPositions(inputImgs[1], st.img, config)
            IN  /\ preparedWM' = st.img
                /\ positions' = g
                /\ IF g.fault # "none"
                   THEN /\ pc' = IF g.fault = "divide by zero" THEN "panicked" ELSE "hung"
                        /\ trace' = Append(st.trace, [who |-> 0, step |-> "generateGridPositions"])
                        /\ UNCHANGED ret
                   ELSE /\ pc' = "returned"
                        /\ trace' = st.trace \o
                              <<[who |-> 0, step |-> "generateGridPositions"],
                                [who |-> 0, step |-> "applyGridWatermarks"]>>
                        /\ ret' = [images |-> <<applyGridWatermarks(inputImgs[1], st.img,
                                                                    g.positions)>>,
                                   isNil |-> FALSE, err |-> NoErr]

\* ---------------------------------------------------------------- batches
\* `maxWorkers := config.MaxWorkers; if maxWorkers <= 0 { runtime.NumCPU() }`
MaxWorkersOf(c) == IF c.MaxWorkers <= 0 THEN NumCPU ELSE c.MaxWorkers

\* The part of a batch operation before its loop: validation, the shared
\* watermark, the results slice.
BatchStart(name, err, msg) ==
    /\ pc = "call"
    /\ op = name
    /\ UNCHANGED <<op, config, inputImgs, watermarkImg, position, positions, sem>>
    /\ IF err # NoError
       THEN /\ ret' = [images |-> <<>>, isNil |-> TRUE, err |-> WrapErr(msg, err)]
            /\ pc' = "returned"
            /\ UNCHANGED <<trace, preparedWM, next, workers, results>>
       ELSE LET st == PrepareWatermark([img |-> watermarkImg, trace |-> trace], config)
            IN  /\ preparedWM' = st.img
                /\ trace' = st.trace
                /\ results' = [i \in 1..Len(inputImgs) |-> NilImage]
                /\ workers' = [i \in 1..Len(inputImgs) |-> "idle"]
                /\ next' = 1
                /\ pc' = IF Len(inputImgs) = 0 THEN "waiting" ELSE "spawning"
                /\ UNCHANGED ret

\* BatchApplySingle(inputImgs, watermarkImg, config) up to its loop.
BatchApplySingle ==
    BatchStart("BatchApplySingle", SingleConfigValidate(config),
               "invalid single watermark configuration")

\* BatchApplyGrid(inputImgs, watermarkImg, config) up to its loop.
BatchApplyGrid ==
    BatchStart("BatchApplyGrid", GridConfigValidate(config),
               "invalid grid watermark configuration")

\* One turn of `for i := 0; i < numImages; i++ { wg.Add(1); go func(index) }`.
Spawn ==
    /\ pc = "spawning"
    /\ workers' = [workers EXCEPT ![next] = "spawned"]
    /\ next' = next + 1
    /\ pc' = IF next = Len(inputImgs) THEN "waiting" ELSE "spawning"
    /\ UNCHANGED <<op, config, inputImgs, watermarkImg, ret, trace, preparedWM,
                   position, positions, sem, results>>

\* Mutant: the send on sem never blocks (an unbounded channel).
AcquireNoLimit(i) ==
    /\ pc \in {"spawning", "waiting"}
    /\ workers[i] = "spawned"
    /\ sem' = sem + 1
    /\ workers' = [workers EXCEPT ![i] = "holding"]
    /\ UNCHANGED <<op, config, inputImgs, watermarkImg, pc, ret, trace, preparedWM,
                   position, positions, next, results>>

\* `sem <- struct{}{}`: blocks while the channel holds maxWorkers tokens.
Acquire(i) ==
    /\ pc \in {"spawning", "waiting"}
    /\ workers[i] = "spawned"
    /\ sem < MaxWorkersOf(config)
    /\ sem' = sem + 1
    /\ workers' = [workers EXCEPT ![i] = "holding"]
    /\ UNCHANGED <<op, config, inputImgs, watermarkImg, pc, ret, trace, preparedWM,
                   position, positions, next, results>>

\* Mutant: a goroutine stores its result in the first free slot of results
\* (the results in completion order) instead of the slot of its index.
ProcessSingleAppend(i) ==
    /\ pc \in {"spawning", "waiting"}
    /\ op = "BatchApplySingle"
    /\ workers[i] = "holding"
    /\ LET st == ResizeStep([img |-> preparedWM, trace |-> trace], i, inputImgs[i], config)
           slot == CHOOSE k \in DOMAIN results :
                     results[k] = NilImage /\ \A j \in 1..(k - 1) : results[j] # NilImage
       IN  \E p \in SinglePosition(st.img, inputImgs[i], config) :
             IF p.panic
             THEN /\ pc' = "panicked"
                  /\ trace' = Append(st.trace, [who |-> i, step |-> "getWatermarkPosition"])
                  /\ UNCHANGED <<results, workers>>
             ELSE /\ trace' = st.trace \o
                        <<[who |-> i, step |-> "getWatermarkPosition"],
                          [who |-> i, step |-> "generateBaseCanvas"],
                          [who |-> i, step |-> "drawWatermarkAtPosition"]>>
                  /\ results' = [results EXCEPT ![slot] =
                        drawWatermarkAtPosition(generateBaseCanvas(inputImgs[i]), st.img,
                                                [X |-> p.X, Y |-> p.Y])]
                  /\ workers' = [workers EXCEPT ![i] = "written"]
                  /\ UNCHANGED pc
    /\ UNCHANGED <<op, config, inputImgs, watermarkImg, ret, preparedWM,
                   position, positions, next, sem>>

\* Mutant: the position is computed from the shared watermark, before it
\* was resized for the image.
ProcessSingleStalePosition(i) ==
    /\ pc \in {"spawning", "waiting"}
    /\ op = "BatchApplySingle"
    /\ workers[i] = "holding"
    /\ LET st == ResizeStep([img |-> preparedWM, trace |-> trace], i, inputImgs[i], config)
       IN  \E p \in SinglePosition(preparedWM, inputImgs[i], config) :
             IF p.panic
             THEN /\ pc' = "panicked"
                  /\ trace' = Append(st.trace, [who |-> i, step |-> "getWatermarkPosition"])
                  /\ UNCHANGED <<results, workers>>
             ELSE /\ trace' = st.trace \o
                        <<[who |-> i, step |-> "getWatermarkPosition"],
                          [who |-> i, step |-> "generateBaseCanvas"],
                          [who |-> i, step |-> "drawWatermarkAtPosition"]>>
                  /\ results' = [results EXCEPT ![i] =
                        drawWatermarkAtPosition(generateBaseCanvas(inputImgs[i]), st.img,
                                                [X |-> p.X, Y |-> p.Y])]
                  /\ workers' = [workers EXCEPT ![i] = "written"]
                  /\ UNCHANGED pc
    /\ UNCHANGED <<op, config, inputImgs, watermarkImg, ret, preparedWM,
                   position, positions, next, sem>>

\* The body of a goroutine of BatchApplySingle.
ProcessSingle(i) ==
    /\ pc \in {"spawning", "waiting"}
    /\ op = "BatchApplySingle"
    /\ workers[i] = "holding"
    /\ LET st == ResizeStep([img |-> preparedWM, trace |-> trace], i, inputImgs[i], config)
       IN  \E p \in SinglePosition(st.img, inputImgs[i], config) :
             IF p.panic
             THEN /\ pc' = "panicked"
                  /\ trace' = Append(st.trace, [who |-> i, step |-> "getWatermarkPosition"])
                  /\ UNCHANGED <<results, workers>>
             ELSE /\ trace' = st.trace \o
                        <<[who |-> i, step |-> "getWatermarkPosition"],
                          [who |-> i, step |-> "generateBaseCanvas"],
                          [who |-> i, step |-> "drawWatermarkAtPosition"]>>
                  /\ results' = [results EXCEPT ![i] =
                        drawWatermarkAtPosition(generateBaseCanvas(inputImgs[i]), st.img,
                                                [X |-> p.X, Y |-> p.Y])]
                  /\ workers' = [workers EXCEPT ![i] = "written"]
                  /\ UNCHANGED pc
    /\ UNCHANGED <<op, config, inputImgs, watermarkImg, ret, preparedWM,
                   position, positions, next, sem>>

\* Mutant: a goroutine stores its result in the first free slot of results.
ProcessGridFirstFree(i) ==
    /\ pc \in {"spawning", "waiting"}
    /\ op = "BatchApplyGrid"
    /\ workers[i] = "holding"
    /\ LET st == ResizeStep([img |-> preparedWM, trace |-> trace], i, inputImgs[i], config)
           g == generateGridPositions(inputImgs[i], st.img, config)
           slot == CHOOSE k \in DOMAIN results :
                     results[k] = NilImage /\ \A j \in 1..(k - 1) : results[j] # NilImage
       IN  IF g.fault # "none"
           THEN /\ pc' = IF g.fault = "divide by zero" THEN "panicked" ELSE "hung"
                /\ trace' = Append(st.trace, [who |-> i, step |-> "generateGridPositions"])
                /\ UNCHANGED <<results, workers>>
           ELSE /\ trace' = st.trace \o
                      <<[who |-> i, step |-> "generateGridPositions"],
                        [who |-> i, step |-> "generateBaseCanvas"],
                        [who |-> i, step |-> "applyGridWatermarks"]>>
                /\ results' = [results EXCEPT ![slot] =
                      applyGridWatermarks(generateBaseCanvas(inputImgs[i]), st.img,
                                          g.positions)]
                /\ workers' = [workers EXCEPT ![i] = "written"]
                /\ UNCHANGED pc
    /\ UNCHANGED <<op, config, inputImgs, watermarkImg, ret, preparedWM,
                   position, positions, next, sem>>

\* The body of a goroutine of BatchApplyGrid.
ProcessGrid(i) ==
    /\ pc \in {"spawning", "waiting"}
    /\ op = "BatchApplyGrid"
    /\ workers[i] = "holding"
    /\ LET st == ResizeStep([img |-> preparedWM, trace |-> trace], i, inputImgs[i], config)
           g == generateGridPositions(inputImgs[i], st.img, config)
       IN  IF g.fault # "none"
           THEN /\ pc' = IF g.fault = "divide by zero" THEN "panicked" ELSE "hung"
                /\ trace' = Append(st.trace, [who |-> i, step |-> "generateGridPositions"])
                /\ UNCHANGED <<results, workers>>
           ELSE /\ trace' = st.trace \o
                      <<[who |-> i, step |-> "generateGridPositions"],
                        [who |-> i, step |-> "generateBaseCanvas"],
                        [who |-> i, step |-> "applyGridWatermarks"]>>
                /\ results' = [results EXCEPT ![i] =
                      applyGridWatermarks(generateBaseCanvas(inputImgs[i]), st.img,
                                          g.positions)]
                /\ workers' = [workers EXCEPT ![i] = "written"]
                /\ UNCHANGED pc
    /\ UNCHANGED <<op, config, inputImgs, watermarkImg, ret, preparedWM,
                   position, positions, next, sem>>

\* `defer func() { <-sem }()`: the last deferred call runs first.
Release(i) ==
    /\ pc \in {"spawning", "waiting"}
    /\ workers[i] = "written"
    /\ sem' = sem - 1
    /\ workers' = [workers EXCEPT ![i] = "released"]
    /\ UNCHANGED <<op, config, inputImgs, watermarkImg, pc, ret, trace, preparedWM,
                   position, positions, next, results>>

\* `defer wg.Done()`.
Done(i) ==
    /\ pc \in {"spawning", "waiting"}
    /\ workers[i] = "released"
    /\ workers' = [workers EXCEPT ![i] = "done"]
    /\ UNCHANGED <<op, config, inputImgs, watermarkImg, pc, ret, trace, preparedWM,
                   position, positions, next, results, sem>>

\* Mutant: the operation returns without waiting for its goroutines.
BatchReturnNoWait ==
    /\ pc = "waiting"
    /\ ret' = [images |-> results, isNil |-> FALSE, err |-> NoErr]
    /\ pc' = "returned"
    /\ UNCHANGED <<op, config, inputImgs, watermarkImg, trace, preparedWM,
                   position, positions, next, workers, sem, results>>

\* `wg.Wait(); return results, nil`.
BatchReturn ==
    /\ pc = "waiting"
    /\ \A i \in DOMAIN workers : workers[i] = "done"
    /\ ret' = [images |-> results, isNil |-> FALSE, err |-> NoErr]
    /\ pc' = "returned"
    /\ UNCHANGED <<op, config, inputImgs, watermarkImg, trace, preparedWM,
                   position, positions, next, workers, sem, results>>

\* ------------------------------------------------------ direct calls
\* applyOpacity(img, opacityAlpha) called on its own: the image is in
\* watermarkImg, the new image it returns in ret.
CallApplyOpacity ==
    /\ pc = "call"
    /\ op = "applyOpacity"
    /\ ret' = [images |-> <<applyOpacity(watermarkImg, config.OpacityAlpha)>>,
               isNil |-> FALSE, err |-> NoErr]
    /\ trace' = Append(trace, [who |-> 0, step |-> "applyOpacity"])
    /\ pc' = "returned"
    /\ UNCHANGED <<op, config, inputImgs, watermarkImg, preparedWM, position,
                   positions, next, workers, sem, results>>

\* drawWatermarkAtPosition(canvas, watermarkImg, pos) called on its own:
\* the canvas is inputImgs[1], the point is in position, and ret holds the
\* canvas after the call (the function draws into its argument).
CallDrawWatermarkAtPosition ==
    /\ pc = "call"
    /\ op = "drawWatermarkAtPosition"
    /\ ret' = [images |-> <<drawWatermarkAtPosition(inputImgs[1], watermarkImg,
                                                    [X |-> position.X, Y |-> position.Y])>>,
               isNil |-> FALSE, err |-> NoErr]
    /\ trace' = Append(trace, [who |-> 0, step |-> "drawWatermarkAtPosition"])
    /\ pc' = "returned"
    /\ UNCHANGED <<op, config, inputImgs, watermarkImg, preparedWM, position,
                   positions, next, workers, sem, results>>

\* ------------------------------------------------------------ initial calls
Red == <<255, 0, 0, 255>>

Blue == <<0, 0, 255, 255>>

\* The state in which an operation has been called and has not yet run.
InitCall(name, c, imgs, wm) ==
    /\ op = name
    /\ config = c
    /\ inputImgs = imgs
    /\ watermarkImg = wm
    /\ pc = "call"
    /\ ret = NoReturn
    /\ trace = <<>>
    /\ preparedWM = NilImage
    /\ position = NoPosition
    /\ positions = NoPositions
    /\ next = 0
    /\ workers = <<>>
    /\ sem = 0
    /\ results = <<>>

MkConfig(opacity, width, rotation, maxWorkers, spacing, vAlign, hAlign, gsx, gsy, ox, oy) ==
    [OpacityAlpha |-> opacity, WatermarkWidthPercent |-> width,
     RotationDegrees |-> rotation, MaxWorkers |-> maxWorkers, Spacing |-> spacing,
     VerticalAlign |-> vAlign, HorizontalAlign |-> hAlign,
     GridSpacingX |-> gsx, GridSpacingY |-> gsy, OffsetX |-> ox, OffsetY |-> oy]

IsBatch(name) == name \in {"BatchApplySingle", "BatchApplyGrid"}

IsSingle(name) == name \in {"ApplySingle", "BatchApplySingle"}

\* The i-th base image of a call: images of different widths.
BaseImage(i) == Uniform(i + 1, 2, Red)

\* Calls of the four operations over valid and invalid configurations.
Init ==
    \E name \in {"ApplySingle", "ApplyGrid", "BatchApplySingle", "BatchApplyGrid"},
       opacity \in {0, 50, 100, 125},
       width \in {0, 50, 100, 125},
       rotation \in {-90, 0, 90, 360, 450},
       maxWorkers \in {-1, 0, 1},
       spacing \in {-1, 0, 1},
       n \in 0..MaxBatch :
        /\ IsSingle(name) \/ spacing = 0
        /\ IsBatch(name) \/ n = 1
        /\ InitCall(name,
                    MkConfig(opacity, width, rotation, maxWorkers, spacing,
                             VerticalBottom, HorizontalRight, 0, 0, 0, 0),
                    [i \in 1..n |-> BaseImage(i)],
                    Uniform(2, 1, Blue))

Next ==
    \/ ApplySingle
    \/ ApplyGrid
    \/ BatchApplySingle
    \/ BatchApplyGrid
    \/ Spawn
    \/ \E i \in DOMAIN workers : Acquire(i)
    \/ \E i \in DOMAIN workers : ProcessSingle(i)
    \/ \E i \in DOMAIN workers : ProcessGrid(i)
    \/ \E i \in DOMAIN workers : Release(i)
    \/ \E i \in DOMAIN workers : Done(i)
    \/ BatchReturn

Spec == Init /\ [][Next]_vars

\* Calls of ApplySingle over base sizes, watermark shapes, width percents,
\* spacings and alignments (valid configurations only).
InitPosition ==
    \E bw \in 1..MaxBase, bh \in 1..MaxBase,
       shape \in {<<1, 1>>, <<1, 2>>, <<2, 1>>, <<1, MaxWm>>},
       width \in {50, 100},
       spacing \in 0..MaxSpacing,
       vAlign \in 0..MaxAlign, hAlign \in 0..MaxAlign :
        InitCall("ApplySingle",
                 MkConfig(100, width, 0, 0, spacing, vAlign, hAlign, 0, 0, 0, 0),
                 <<Uniform(bw, bh, Red)>>,
                 Uniform(shape[1], shape[2], Blue))

SpecPosition == InitPosition /\ [][ApplySingle]_vars

\* Calls of ApplySingle on a 100x100 red base with a 20x20 blue watermark
\* at 20 percent, over the deterministic alignments and some spacings.
InitE2E ==
    \E spacing \in 0..MaxE2ESpacing,
       vAlign \in {VerticalTop, VerticalMiddle, VerticalBottom},
       hAlign \in {HorizontalLeft, HorizontalMiddle, HorizontalRight} :
        InitCall("ApplySingle",
                 MkConfig(100, 20, 0, 0, spacing, vAlign, hAlign, 0, 0, 0, 0),
                 <<Uniform(100, 100, Red)>>,
                 Uniform(20, 20, Blue))

SpecE2E == InitE2E /\ [][ApplySingle]_vars

\* Calls of ApplyGrid over base sizes, watermark shapes, width percents,
\* grid spacings and offsets (valid configurations only).
InitGrid ==
    \E bw \in 1..MaxGridBase, bh \in 1..MaxGridBase,
       shape \in {<<1, 1>>, <<1, 2>>, <<2, 1>>},
       width \in {50, 100},
       gsx \in (-MaxGridShift)..MaxGridShift, gsy \in (-MaxGridShift)..MaxGridShift,
       ox \in (-MaxGridShift)..MaxGridShift, oy \in (-MaxGridShift)..MaxGridShift :
        InitCall("ApplyGrid",
                 MkConfig(100, width, 0, 0, 0, 0, 0, gsx, gsy, ox, oy),
                 <<Uniform(bw, bh, Red)>>,
                 Uniform(shape[1], shape[2], Blue))

SpecGrid == InitGrid /\ [][ApplyGrid]_vars

\* An NRGBA image whose pixels all differ: pixel i has green 40 * i + 10.
Tile(w, h, alpha) ==
    [w |-> w, h |-> h, model |-> "NRGBA",
     pix |-> [i \in 0..(w * h - 1) |-> <<0, 40 * i + 10, 255, alpha>>]]

\* An opaque RGBA canvas whose pixels all differ.
Board(w, h) ==
    [w |-> w, h |-> h, model |-> "RGBA",
     pix |-> [i \in 0..(w * h - 1) |-> <<255, 20 * i + 5, 0, 255>>]]

\* The valid configuration with the given opacity and nothing else set.
OpacityConfig(opacity) == MkConfig(opacity, 100, 0, 0, 0, 0, 0, 0, 0, 0, 0)

\* Calls of applyOpacity on a 2x1 image: one pixel over a range of reds and
\* alphas, one opaque white pixel; opacities 0.25, 0.5, 0.75 and 1.
InitOpacity ==
    \E red \in {0, 1, 200, 255},
       alpha \in {0, 1, 2, 3, 127, 128, 129, 254, 255},
       opacity \in {25, 50, 75, 100} :
        /\ InitCall("applyOpacity", OpacityConfig(opacity), <<>>,
                    [w |-> 2, h |-> 1, model |-> "NRGBA",
                     pix |-> [i \in 0..1 |-> IF i = 0 THEN <<red, 100, 50, alpha>>
                                                      ELSE <<255, 255, 255, 255>>]])

SpecOpacity == InitOpacity /\ [][CallApplyOpacity]_vars

\* Calls of drawWatermarkAtPosition over canvas sizes, watermark sizes and
\* alphas, and points inside, across and outside the canvas.
InitDraw ==
    \E cw \in 1..MaxCanvas, ch \in 1..MaxCanvas,
       ww \in 1..2, wh \in 1..2, alpha \in {128, 255},
       x \in (-MaxPoint)..(MaxCanvas + 1), y \in (-MaxPoint)..(MaxCanvas + 1) :
        /\ op = "drawWatermarkAtPosition"
        /\ config = OpacityConfig(100)
        /\ inputImgs = <<Board(cw, ch)>>
        /\ watermarkImg = Tile(ww, wh, alpha)
        /\ pc = "call"
        /\ ret = NoReturn
        /\ trace = <<>>
        /\ preparedWM = NilImage
        /\ position = [NoPosition EXCEPT !.X = x, !.Y = y]
        /\ positions = NoPositions
        /\ next = 0
        /\ workers = <<>>
        /\ sem = 0
        /\ results = <<>>

SpecDraw == InitDraw /\ [][CallDrawWatermarkAtPosition]_vars

\* Calls of ApplyGrid with a 2x2 opaque watermark of four different pixels,
\* over base sizes, opacities, rotations, width percents, grid spacings
\* and offsets: with a negative spacing neighbouring tiles overlap.
InitOverlap ==
    \E bw \in 1..MaxGridBase, bh \in 1..MaxGridBase,
       opacity \in {50, 100}, rotation \in {0, 90}, width \in {50, 100},
       gsx \in -1..1, gsy \in -1..1, ox \in -1..1, oy \in -1..1 :
        InitCall("ApplyGrid",
                 MkConfig(opacity, width, rotation, 0, 0, 0, 0, gsx, gsy, ox, oy),
                 <<Uniform(bw, bh, Red)>>,
                 Tile(2, 2, 255))

SpecOverlap == InitOverlap /\ [][ApplyGrid]_vars

\* The i-th base image of a varied batch: half-transparent, widths differ.
BatchBase(i) == Uniform(i + 1, 2, <<255, 0, 0, 128>>)

\* Calls of the batch operations with valid configurations: opacities,
\* rotations, width percents, worker counts, the deterministic alignments
\* and spacings for the single placement, grid spacings and offsets for
\* the grid; the watermark is 2x1 with two different pixels.
InitBatch ==
    \E name \in {"BatchApplySingle", "BatchApplyGrid"},
       opacity \in {50, 100}, rotation \in {0, 90}, width \in {50, 100},
       maxWorkers \in {0, 1, 2},
       align \in {<<VerticalTop, HorizontalLeft>>, <<VerticalMiddle, HorizontalMiddle>>,
                  <<VerticalBottom, HorizontalRight>>},
       spacing \in {0, 1}, gsx \in -1..1, ox \in -1..0,
       n \in 0..MaxBatch :
        /\ IsSingle(name) => (gsx = 0 /\ ox = 0)
        /\ ~IsSingle(name) => (spacing = 0 /\ align[1] = VerticalTop)
        /\ InitCall(name,
                    MkConfig(opacity, width, rotation, maxWorkers, spacing,
                             align[1], align[2], gsx, 0, ox, 0),
                    [i \in 1..n |-> BatchBase(i)],
                    Tile(2, 1, 255))

NextBatch ==
    \/ BatchApplySingle
    \/ BatchApplyGrid
    \/ Spawn
    \/ \E i \in DOMAIN workers : Acquire(i)
    \/ \E i \in DOMAIN workers : ProcessSingle(i)
    \/ \E i \in DOMAIN workers : ProcessGrid(i)
    \/ \E i \in DOMAIN workers : Release(i)
    \/ \E i \in DOMAIN workers : Done(i)
    \/ BatchReturn

SpecBatch == InitBatch /\ [][NextBatch]_vars

\* Calls of the batch operations with valid configurations on base images
\* one pixel high: worker counts below, at and above the number of
\* images, and grid spacings that make the grid step 1, 0 or the
\* watermark's width.
InitFair ==
    \E name \in {"BatchApplySingle", "BatchApplyGrid"},
       width \in {50, 100}, maxWorkers \in {0, 1, 2}, gsx \in -1..0,
       n \in 0..MaxBatch :
        /\ IsSingle(name) => gsx = 0
        /\ InitCall(name,
                    MkConfig(100, width, 0, maxWorkers, 0,
                             VerticalBottom, HorizontalRight, gsx, 0, 0, 0),
                    [i \in 1..n |-> Uniform(i + 1, 1, Red)],
                    Uniform(2, 1, Blue))

\* The Go scheduler runs a goroutine that can take a step: a batch call
\* does not stop while one of its steps is possible.
FairSpecBatch == InitFair /\ [][NextBatch]_vars /\ WF_vars(NextBatch)

\* ----------------------------------------------------------------- claims
\* The range checks of the configuration, stated one by one.
Violates(c, name, check) ==
    IF check = "opacity" THEN ~(c.OpacityAlpha > 0 /\ c.OpacityAlpha <= 100)
    ELSE IF check = "width"
    THEN ~(c.WatermarkWidthPercent > 0 /\ c.WatermarkWidthPercent <= 100)
    ELSE IF check = "rotation" THEN c.RotationDegrees \notin 0..360
    ELSE IF check = "maxworkers" THEN ~(c.MaxWorkers >= 0)
    ELSE IsSingle(name) /\ ~(c.Spacing >= 0)

ConfigInvalid ==
    \E check \in {"opacity", "width", "rotation", "maxworkers", "spacing"} :
        Violates(config, op, check)

\* The first check of the sequence order that the configuration violates.
FirstViolated(order) ==
    LET bad == {k \in 1..Len(order) : Violates(config, op, order[k])}
    IN  IF bad = {} THEN NoError
        ELSE order[CHOOSE k \in bad : \A j \in bad : k <= j]

\* C1: an operation called with a configuration that fails validation
\* returns an error and a nil result, and has run no opacity, rotation,
\* resize, positioning or compositing step and launched no worker.
C1_InvalidConfigRunsNothing ==
    (pc # "call" /\ ConfigInvalid) =>
        /\ pc = "returned"
        /\ ret.isNil
        /\ ret.images = <<>>
        /\ ret.err.cause # NoError
        /\ trace = <<>>
        /\ preparedWM = NilImage
        /\ workers = <<>>
        /\ results = <<>>
        /\ sem = 0

C1_Witness ==
    /\ pc = "returned"
    /\ op = "BatchApplySingle"
    /\ Len(inputImgs) > 0
    /\ config.Spacing < 0
    /\ ~Violates(config, op, "opacity")
    /\ ~Violates(config, op, "width")
    /\ ~Violates(config, op, "rotation")
    /\ ~Violates(config, op, "maxworkers")
    /\ ret.err.cause = "spacing"

\* C2: every apply operation called with RotationDegrees = 360 returns an
\* error.
C2_Rotation360Rejected ==
    (pc = "returned" /\ config.RotationDegrees = 360) => ret.err.cause # NoError

\* C3 as stated: the error of a single-placement operation is that of the
\* first violated check in the order opacity, width percent, rotation,
\* spacing, max-concurrency.
C3_SpacingBeforeWorkers ==
    (pc = "returned" /\ IsSingle(op)) =>
        ret.err.cause = FirstViolated(<<"opacity", "width", "rotation", "spacing", "maxworkers">>)

\* C3 as amended: the error of an operation is that of the first violated
\* check in the order opacity, width percent, rotation, max-concurrency,
\* spacing (single placement only); a configuration with both Spacing < 0
\* and MaxWorkers < 0 reports the MaxWorkers violation.
C3_ValidationOrder ==
    pc = "returned" =>
        ret.err.cause = FirstViolated(<<"opacity", "width", "rotation", "maxworkers", "spacing">>)

C3_Witness ==
    /\ pc = "returned"
    /\ op = "ApplySingle"
    /\ config.Spacing < 0
    /\ config.MaxWorkers < 0
    /\ ~Violates(config, op, "opacity")
    /\ ~Violates(config, op, "width")
    /\ ~Violates(config, op, "rotation")
    /\ ret.err.cause = "maxworkers"

\* c is (d / 2) truncated toward zero, stated without a division.
IsHalfTowardZero(c, d) ==
    /\ 2 * c - d \in {-1, 0, 1}
    /\ d >= 0 => (0 <= 2 * c /\ 2 * c <= d)
    /\ d <= 0 => (d <= 2 * c /\ 2 * c <= 0)

\* Sizes the position of a call of ApplySingle is about: the base image
\* and the watermark as prepared (opacity, rotation, resize).
BaseW == inputImgs[1].w

BaseH == inputImgs[1].h

WmW == preparedWM.w

WmH == preparedWM.h

\* C4: in ApplySingle, Left/Top give the coordinate spacing and
\* Right/Bottom give baseSize - wmSize - spacing, baseSize being the size
\* of the base image and wmSize that of the prepared watermark.
C4_EdgeAlignment ==
    (pc = "returned" /\ op = "ApplySingle") =>
        /\ config.HorizontalAlign = HorizontalLeft => position.X = config.Spacing
        /\ config.VerticalAlign = VerticalTop => position.Y = config.Spacing
        /\ config.HorizontalAlign = HorizontalRight
              => position.X = BaseW - WmW - config.Spacing
        /\ config.VerticalAlign = VerticalBottom
              => position.Y = BaseH - WmH - config.Spacing

C4_Witness ==
    /\ pc = "returned"
    /\ config.HorizontalAlign = HorizontalRight
    /\ config.VerticalAlign = VerticalBottom
    /\ config.Spacing > 0
    /\ BaseW # WmW
    /\ BaseH # WmH
    /\ position.X = BaseW - WmW - config.Spacing
    /\ position.Y < 0

\* C5: for Middle alignment the coordinate is (baseSize - wmSize) / 2
\* truncated toward zero, whatever the spacing, also for odd differences
\* and for a watermark larger than the base.
C5_MiddleAlignment ==
    (pc = "returned" /\ op = "ApplySingle") =>
        /\ config.HorizontalAlign = HorizontalMiddle
              => IsHalfTowardZero(position.X, BaseW - WmW)
        /\ config.VerticalAlign = VerticalMiddle
              => IsHalfTowardZero(position.Y, BaseH - WmH)

C5_Witness ==
    /\ pc = "returned"
    /\ config.VerticalAlign = VerticalMiddle
    /\ config.HorizontalAlign = HorizontalMiddle
    /\ config.Spacing > 0
    /\ BaseH - WmH < 0
    /\ (BaseH - WmH) % 2 = 1
    /\ BaseW - WmW > 0
    /\ (BaseW - WmW) % 2 = 1
    /\ position.Y < 0

\* C6: for Random alignment every returned coordinate c satisfies
\* spacing <= c <= max(baseSize - wmSize - spacing, spacing).
C6_RandomWithinBounds ==
    (pc = "returned" /\ op = "ApplySingle") =>
        /\ config.HorizontalAlign = HorizontalRandom
              => /\ config.Spacing <= position.X
                 /\ position.X <= Max2(BaseW - WmW - config.Spacing, config.Spacing)
        /\ config.VerticalAlign = VerticalRandom
              => /\ config.Spacing <= position.Y
                 /\ position.Y <= Max2(BaseH - WmH - config.Spacing, config.Spacing)

C6_Witness ==
    /\ pc = "returned"
    /\ config.HorizontalAlign = HorizontalRandom
    /\ config.VerticalAlign = VerticalRandom
    /\ config.Spacing > 0
    /\ position.X = BaseW - WmW - config.Spacing
    /\ position.X > config.Spacing
    /\ position.Y > config.Spacing
    /\ position.Y < BaseH - WmH - config.Spacing

\* C7: for Random alignment with baseSize - wmSize - spacing not greater
\* than spacing the coordinate is spacing and rand.Intn is not called for
\* that axis; no call of rand.Intn has an empty range, and the position
\* computation does not panic.
C7_RandomDegenerate ==
    (pc # "call" /\ op = "ApplySingle") =>
        /\ pc = "returned"
        /\ ~position.panic
        /\ \A k \in DOMAIN position.drawsX : position.drawsX[k] >= 1
        /\ \A k \in DOMAIN position.drawsY : position.drawsY[k] >= 1
        /\ (config.HorizontalAlign = HorizontalRandom
              /\ BaseW - WmW - config.Spacing <= config.Spacing)
              => (position.X = config.Spacing /\ position.drawsX = <<>>)
        /\ (config.VerticalAlign = VerticalRandom
              /\ BaseH - WmH - config.Spacing <= config.Spacing)
              => (position.Y = config.Spacing /\ position.drawsY = <<>>)

C7_Witness ==
    /\ pc = "returned"
    /\ config.HorizontalAlign = HorizontalRandom
    /\ config.VerticalAlign = VerticalRandom
    /\ BaseW - WmW - config.Spacing < config.Spacing
    /\ BaseH - WmH - config.Spacing < 0
    /\ position.X = config.Spacing
    /\ position.Y = config.Spacing
    /\ position.drawsX = <<>>
    /\ position.drawsY = <<>>

\* What an axis with a recognised alignment gives.
AxisAsAligned(c, baseSize, wmSize, align) ==
    IF align = 0 THEN c = config.Spacing
    ELSE IF align = 1 THEN IsHalfTowardZero(c, baseSize - wmSize)
    ELSE IF align = 2 THEN c = baseSize - wmSize - config.Spacing
    ELSE /\ config.Spacing <= c
         /\ c <= Max2(baseSize - wmSize - config.Spacing, config.Spacing)

\* C8: an alignment that is none of the four recognised values is treated
\* as Middle on its axis only: that coordinate is (baseSize - wmSize) / 2,
\* the other axis follows its own alignment, and no error is returned.
C8_UnknownAlignmentIsMiddle ==
    (pc # "call" /\ op = "ApplySingle"
        /\ (config.HorizontalAlign \notin 0..3 \/ config.VerticalAlign \notin 0..3)) =>
        /\ pc = "returned"
        /\ ret.err = NoErr
        /\ ~ret.isNil
        /\ IF config.HorizontalAlign \notin 0..3
           THEN IsHalfTowardZero(position.X, BaseW - WmW)
           ELSE AxisAsAligned(position.X, BaseW, WmW, config.HorizontalAlign)
        /\ IF config.VerticalAlign \notin 0..3
           THEN IsHalfTowardZero(position.Y, BaseH - WmH)
           ELSE AxisAsAligned(position.Y, BaseH, WmH, config.VerticalAlign)

C8_Witness ==
    /\ pc = "returned"
    /\ config.HorizontalAlign \notin 0..3
    /\ config.VerticalAlign = VerticalBottom
    /\ config.Spacing > 0
    /\ position.X > 0
    /\ position.Y = BaseH - WmH - config.Spacing
    /\ position.Y # position.X

\* The end-to-end call: Horizontal = Right, Vertical = Bottom, spacing 5.
E2ECase ==
    /\ pc = "returned"
    /\ op = "ApplySingle"
    /\ config.HorizontalAlign = HorizontalRight
    /\ config.VerticalAlign = VerticalBottom
    /\ config.Spacing = 5
    /\ BaseW = 100 /\ BaseH = 100
    /\ watermarkImg.w = 20 /\ watermarkImg.h = 20
    /\ config.WatermarkWidthPercent = 20

\* C9 as stated: the result of the end-to-end call has a blue pixel at
\* (95, 95) and a red pixel at (50, 50).
C9_Pixel95Blue ==
    E2ECase => /\ PixAt(ret.images[1], 95, 95) = Blue
               /\ PixAt(ret.images[1], 50, 50) = Red

\* C9 as amended: the watermark covers [75, 95) x [75, 95): the pixels
\* (75, 75) and (94, 94) are blue, the pixels (95, 95) and (50, 50) are red.
C9_EndToEnd ==
    E2ECase => /\ position.X = 75 /\ position.Y = 75
               /\ PixAt(ret.images[1], 75, 75) = Blue
               /\ PixAt(ret.images[1], 94, 94) = Blue
               /\ PixAt(ret.images[1], 95, 95) = Red
               /\ PixAt(ret.images[1], 50, 50) = Red
               /\ PixAt(ret.images[1], 74, 74) = Red

C9_Witness ==
    /\ E2ECase
    /\ ret.err = NoErr
    /\ ret.images[1].w = 100
    /\ preparedWM.w = 20 /\ preparedWM.h = 20

\* Steps of a call of ApplyGrid.
StepX == preparedWM.w + config.GridSpacingX

StepY == preparedWM.h + config.GridSpacingY

\* Number of i >= 0 with offset + i * step < limit, for step > 0.
CountBelow(offset, step, limit) ==
    Cardinality({i \in 0..(limit + MaxGridShift) : offset + i * step < limit})

\* C10: with both steps positive, generateGridPositions returns exactly
\* the points (offsetX + i*stepX, offsetY + j*stepY), i, j >= 0, with
\* x < baseWidth and y < baseHeight, each once, in row-major order.
C10_GridRowMajor ==
    (pc # "call" /\ op = "ApplyGrid" /\ StepX > 0 /\ StepY > 0) =>
        LET nx == CountBelow(config.OffsetX, StepX, BaseW)
            ny == CountBelow(config.OffsetY, StepY, BaseH)
        IN  /\ pc = "returned"
            /\ positions.fault = "none"
            /\ positions.positions =
                 [k \in 1..(nx * ny) |->
                    [X |-> config.OffsetX + ((k - 1) % nx) * StepX,
                     Y |-> config.OffsetY + ((k - 1) \div nx) * StepY]]

C10_Witness ==
    /\ pc = "returned"
    /\ op = "ApplyGrid"
    /\ StepX > 1 /\ StepY > 1
    /\ config.OffsetX < 0 /\ config.OffsetY > 0
    /\ Len(positions.positions) >= 4
    /\ positions.positions[1] = [X |-> config.OffsetX, Y |-> config.OffsetY]
    /\ positions.positions[2] = [X |-> config.OffsetX + StepX, Y |-> config.OffsetY]
    /\ positions.positions[Len(positions.positions)].Y > config.OffsetY

\* ------------------------------------------------------- C11: tile count
\* The least n with n * b >= a, for a >= 0 and b >= 1.
Ceil(a, b) == CHOOSE n \in 0..a : n * b >= a /\ (n = 0 \/ (n - 1) * b < a)

\* C11: with grid spacings and offsets all 0 and a prepared watermark of
\* at least 1x1, generateGridPositions returns exactly
\* ceil(W/w) * ceil(H/h) points and the first one is (0,0).
C11_TileCount ==
    (/\ pc # "call" /\ op = "ApplyGrid"
     /\ config.GridSpacingX = 0 /\ config.GridSpacingY = 0
     /\ config.OffsetX = 0 /\ config.OffsetY = 0
     /\ WmW >= 1 /\ WmH >= 1) =>
        /\ pc = "returned"
        /\ positions.fault = "none"
        /\ Len(positions.positions) = Ceil(BaseW, WmW) * Ceil(BaseH, WmH)
        /\ positions.positions[1] = [X |-> 0, Y |-> 0]

C11_Witness ==
    /\ pc = "returned" /\ op = "ApplyGrid"
    /\ config.GridSpacingX = 0 /\ config.GridSpacingY = 0
    /\ config.OffsetX = 0 /\ config.OffsetY = 0
    /\ WmW = 1 /\ BaseW = 2 /\ WmH = 2 /\ BaseH = 3
    /\ Len(positions.positions) = 4
    /\ positions.positions[2] = [X |-> 1, Y |-> 0]
    /\ positions.positions[4] = [X |-> 1, Y |-> 2]

\* ------------------------------------------------- C12: off-canvas offset
OffCanvas == config.OffsetX >= BaseW \/ config.OffsetY >= BaseH

\* C12: when offsetX >= baseWidth or offsetY >= baseHeight,
\* generateGridPositions returns no point, whatever the grid spacing, and
\* ApplyGrid returns without error a copy of the base image with every
\* pixel as it was.
C12_OffCanvasIsCopy ==
    (pc # "call" /\ op = "ApplyGrid" /\ OffCanvas) =>
        /\ pc = "returned"
        /\ positions = [positions |-> <<>>, fault |-> "none"]
        /\ ~ret.isNil /\ ret.err = NoErr
        /\ ret.images = <<generateBaseCanvas(inputImgs[1])>>
        /\ ret.images[1].w = BaseW /\ ret.images[1].h = BaseH
        /\ ret.images[1].pix = inputImgs[1].pix

C12_Witness ==
    /\ pc = "returned" /\ op = "ApplyGrid"
    /\ config.OffsetX >= BaseW /\ config.OffsetY < BaseH
    /\ StepX = 0 /\ StepY < 0
    /\ positions.positions = <<>>
    /\ ret.images[1].pix = inputImgs[1].pix

\* ------------------------------------------------- C13: grid termination
\* C13: for every configuration that passes validation, negative grid
\* spacings with watermark size + spacing <= 0 included, the tiling loops
\* of generateGridPositions make progress and the function terminates.
C13_GridTerminates ==
    (pc # "call" /\ op \in {"ApplyGrid", "BatchApplyGrid"}
                 /\ GridConfigValidate(config) = NoError) =>
        /\ pc # "hung"
        /\ positions.fault # "no progress"

\* ---------------------------------------------- C14: no fault in the grid
\* C14: once validation has passed, ApplyGrid never aborts with a runtime
\* fault, whatever the grid spacings and offsets are (watermark size +
\* spacing = 0 included).
C14_GridNoRuntimeFault ==
    (pc # "call" /\ op \in {"ApplyGrid", "BatchApplyGrid"}
                 /\ GridConfigValidate(config) = NoError) =>
        /\ pc # "panicked"
        /\ positions.fault # "divide by zero"

\* --------------------------------------------- C15: order of preparation
\* Whether every step named a in the trace comes before every step named b.
Precedes(a, b) ==
    \A i, j \in DOMAIN trace :
        (trace[i].step = a /\ trace[j].step = b) => i < j

\* C15: in every apply operation the watermark is resized first, then
\* rotated (when rotation # 0), then scaled in opacity (when opacity < 1).
C15_ResizeRotateOpacity ==
    /\ Precedes("resizeWatermark", "rotateImage")
    /\ Precedes("rotateImage", "applyOpacity")
    /\ Precedes("resizeWatermark", "applyOpacity")

\* ------------------------------------------------ C16: rounding of alpha
OpacityCase == pc = "returned" /\ op = "applyOpacity"

\* Whether n is an integer nearest to a * opacity (opacity in hundredths);
\* on a tie both neighbours are.
IsNearest(n, a, opacity) ==
    /\ 100 * n - a * opacity <= 50
    /\ a * opacity - 100 * n <= 50

\* C16: applyOpacity sets the alpha of every pixel to old_alpha * opacity
\* rounded to the nearest integer.
C16_AlphaRounded ==
    OpacityCase =>
        \A i \in DOMAIN watermarkImg.pix :
            IsNearest(ret.images[1].pix[i][4], watermarkImg.pix[i][4], config.OpacityAlpha)

\* ------------------------------------------- C17: colour channels are kept
\* C17: applyOpacity leaves the stored red, green and blue values of every
\* pixel as they were, pixels with an input alpha below 255 included.
C17_ColourUnchanged ==
    OpacityCase =>
        \A i \in DOMAIN watermarkImg.pix : \A ch \in 1..3 :
            ret.images[1].pix[i][ch] = watermarkImg.pix[i][ch]

\* ------------------------------------------------- C18: clipped compositing
DrawCase == pc = "returned" /\ op = "drawWatermarkAtPosition"

\* Whether (x, y) lies in the destination rectangle [point, point + dims).
InDestination(x, y) ==
    /\ position.X <= x /\ x < position.X + watermarkImg.w
    /\ position.Y <= y /\ y < position.Y + watermarkImg.h

IsOpaque(img) == \A i \in DOMAIN img.pix : img.pix[i][4] = 255

\* C18: compositing a watermark at a point returns without error a canvas
\* of the same bounds in which every pixel outside the destination
\* rectangle is unchanged, wherever the rectangle lies, and in which, for
\* a fully opaque watermark, every pixel inside it is the corresponding
\* watermark pixel.
C18_ClippedComposite ==
    DrawCase =>
        /\ ~ret.isNil /\ ret.err = NoErr
        /\ ret.images[1].w = inputImgs[1].w /\ ret.images[1].h = inputImgs[1].h
        /\ DOMAIN ret.images[1].pix = DOMAIN inputImgs[1].pix
        /\ \A x \in 0..(inputImgs[1].w - 1), y \in 0..(inputImgs[1].h - 1) :
            IF InDestination(x, y)
            THEN IsOpaque(watermarkImg) =>
                    PixAt(ret.images[1], x, y) =
                        PixAt(watermarkImg, x - position.X, y - position.Y)
            ELSE PixAt(ret.images[1], x, y) = PixAt(inputImgs[1], x, y)

C18_Witness ==
    /\ DrawCase
    /\ IsOpaque(watermarkImg) /\ watermarkImg.w = 2 /\ watermarkImg.h = 2
    /\ inputImgs[1].w = 2 /\ inputImgs[1].h = 2
    /\ position.X = -1 /\ position.Y = 1
    /\ PixAt(ret.images[1], 0, 1) = PixAt(watermarkImg, 1, 0)
    /\ PixAt(ret.images[1], 0, 0) = PixAt(inputImgs[1], 0, 0)
    /\ PixAt(ret.images[1], 1, 1) = PixAt(inputImgs[1], 1, 1)
    /\ ret.images[1] # inputImgs[1]

\* ------------------------------------------------ C19: order of the tiles
\* The indexes of the emitted positions whose tile covers (x, y).
Covering(x, y) ==
    {k \in DOMAIN positions.positions :
        /\ positions.positions[k].X <= x /\ x < positions.positions[k].X + WmW
        /\ positions.positions[k].Y <= y /\ y < positions.positions[k].Y + WmH}

LastOf(S) == CHOOSE k \in S : \A j \in S : j <= k

\* C19: the tiles are composited in the order the positions were emitted:
\* with a fully opaque watermark a canvas pixel covered by several tiles
\* is the pixel of the last emitted tile that covers it, and a pixel no
\* tile covers is the base pixel.
C19_LastTileWins ==
    (pc = "returned" /\ op = "ApplyGrid" /\ ~ret.isNil /\ IsOpaque(preparedWM)) =>
        \A x \in 0..(BaseW - 1), y \in 0..(BaseH - 1) :
            IF Covering(x, y) = {}
            THEN PixAt(ret.images[1], x, y) = PixAt(generateBaseCanvas(inputImgs[1]), x, y)
            ELSE PixAt(ret.images[1], x, y) =
                    PixAt(preparedWM,
                          x - positions.positions[LastOf(Covering(x, y))].X,
                          y - positions.positions[LastOf(Covering(x, y))].Y)

C19_Witness ==
    /\ pc = "returned" /\ op = "ApplyGrid"
    /\ preparedWM = Tile(2, 2, 255)
    /\ BaseW = 2 /\ BaseH = 2
    /\ positions.positions = <<[X |-> 0, Y |-> 0], [X |-> 1, Y |-> 0],
                               [X |-> 0, Y |-> 1], [X |-> 1, Y |-> 1]>>
    /\ Covering(1, 1) = 1..4
    /\ PixAt(ret.images[1], 1, 1) = PixAt(preparedWM, 0, 0)
    /\ PixAt(ret.images[1], 1, 1) # PixAt(preparedWM, 1, 1)

\* ----------------------------------------------- C20: results by index
\* The watermark a single-image operation prepares for the base image img.
PreparedFor(img) ==
    resizeWatermark(PrepareWatermark([img |-> watermarkImg, trace |-> <<>>], config).img,
                    img, config)

\* The images ApplySingle can return for img (one per random draw).
SingleResults(img) ==
    {drawWatermarkAtPosition(generateBaseCanvas(img), PreparedFor(img),
                             [X |-> p.X, Y |-> p.Y]) :
        p \in {q \in SinglePosition(PreparedFor(img), img, config) : ~q.panic}}

\* The image ApplyGrid returns for img.
GridResult(img) ==
    applyGridWatermarks(img, PreparedFor(img),
                        generateGridPositions(img, PreparedFor(img), config).positions)

BatchReturned == pc = "returned" /\ IsBatch(op) /\ ~ret.isNil

\* C20: a batch operation on N base images returns exactly N results and
\* results[i] is the watermarked inputImgs[i] (what the single-image
\* operation gives for it), whatever the order the workers ran and
\* completed in.
C20_ResultsByIndex ==
    BatchReturned =>
        /\ ret.err = NoErr
        /\ Len(ret.images) = Len(inputImgs)
        /\ \A i \in DOMAIN inputImgs :
            IF op = "BatchApplySingle"
            THEN ret.images[i] \in SingleResults(inputImgs[i])
            ELSE ret.images[i] = GridResult(inputImgs[i])

\* A batch of two images whose second worker drew before the first one.
C20_Witness ==
    /\ BatchReturned
    /\ op = "BatchApplySingle"
    /\ Len(inputImgs) = 2
    /\ ret.images[1] # ret.images[2]
    /\ ret.images[1].w = inputImgs[1].w /\ ret.images[2].w = inputImgs[2].w
    /\ ret.images[1] # generateBaseCanvas(inputImgs[1])
    /\ \E i, j \in DOMAIN trace :
        /\ i < j
        /\ trace[i] = [who |-> 2, step |-> "drawWatermarkAtPosition"]
        /\ trace[j] = [who |-> 1, step |-> "drawWatermarkAtPosition"]

\* ------------------------------------------- C21: bounded concurrency
\* The goroutines that hold a token of sem (they are processing an image).
Holding == {i \in DOMAIN workers : workers[i] \in {"holding", "written"}}

WorkerCount == IF config.MaxWorkers > 0 THEN config.MaxWorkers ELSE NumCPU

\* C21: at every instant of a batch call at most WorkerCount tasks hold a
\* pool slot: MaxWorkers of them when MaxWorkers > 0, the platform's
\* default parallelism when MaxWorkers = 0, also for more images than that.
C21_BoundedWorkers ==
    (IsBatch(op) /\ pc # "call") =>
        /\ Cardinality(Holding) <= WorkerCount
        /\ sem <= WorkerCount

C21_Witness ==
    /\ IsBatch(op) /\ pc = "waiting"
    /\ config.MaxWorkers = 1
    /\ Len(inputImgs) = 2
    /\ Cardinality(Holding) = 1
    /\ \E i \in DOMAIN workers : workers[i] = "spawned"

\* ---------------------------------------------- C24: return after the join
\* C24: when a batch operation returns, every goroutine has finished:
\* every results[i] has been written, no goroutine is running and no
\* token is left in sem.
C24_ReturnAfterAll ==
    BatchReturned =>
        /\ \A i \in DOMAIN inputImgs :
            /\ workers[i] = "done"
            /\ results[i] # NilImage
            /\ ret.images[i] # NilImage
        /\ Holding = {}
        /\ sem = 0

C24_Witness ==
    /\ BatchReturned
    /\ op = "BatchApplyGrid"
    /\ Len(inputImgs) = 2
    /\ workers = <<"done", "done">>
    /\ ret.images[1].w = inputImgs[1].w /\ ret.images[2].w = inputImgs[2].w

\* --------------------------------------------- C26: one writer per slot
\* C26: results has N slots from before the first goroutine starts, and a
\* step of a batch call changes at most one slot, the slot of the
\* goroutine taking the step, from unwritten to written, once.
C26_DisjointWrites ==
    [][(IsBatch(op) /\ pc \in {"spawning", "waiting"}) =>
        /\ Len(results) = Len(inputImgs)
        /\ Len(results') = Len(inputImgs)
        /\ \A k \in DOMAIN results :
            results'[k] # results[k] =>
                /\ results[k] = NilImage
                /\ workers[k] = "holding" /\ workers'[k] = "written"
                /\ \A j \in DOMAIN results \ {k} :
                    results'[j] = results[j] /\ workers'[j] = workers[j]]_vars

\* Both slots written, by goroutines that ran in the reverse order.
C26_Witness ==
    /\ IsBatch(op) /\ pc = "waiting"
    /\ op = "BatchApplyGrid"
    /\ Len(results) = 2
    /\ results[1] # NilImage /\ results[2] # NilImage
    /\ results[1] # results[2]
    /\ \E i, j \in DOMAIN trace :
        /\ i < j
        /\ trace[i] = [who |-> 2, step |-> "applyGridWatermarks"]
        /\ trace[j] = [who |-> 1, step |-> "applyGridWatermarks"]

\* ------------------------------------------ C22: batch equals single calls
DeterministicAlign ==
    /\ config.VerticalAlign # VerticalRandom
    /\ config.HorizontalAlign # HorizontalRandom

\* C22: for a valid configuration with deterministic alignment, every
\* MaxWorkers >= 0 and every list of base images, results[i] of
\* BatchApplySingle is the one image ApplySingle returns for inputImgs[i],
\* and results[i] of BatchApplyGrid is the image ApplyGrid returns for it.
C22_BatchEqualsSingle ==
    (BatchReturned /\ DeterministicAlign /\ config.MaxWorkers >= 0) =>
        \A i \in DOMAIN inputImgs :
            /\ i \in DOMAIN ret.images
            /\ op = "BatchApplySingle" => SingleResults(inputImgs[i]) = {ret.images[i]}
            /\ op = "BatchApplyGrid" => <<GridResult(inputImgs[i])>> = <<ret.images[i]>>

C22_Witness ==
    /\ BatchReturned /\ op = "BatchApplySingle"
    /\ config.MaxWorkers = 2 /\ config.OpacityAlpha = 50 /\ config.RotationDegrees = 90
    /\ config.VerticalAlign = VerticalMiddle /\ config.Spacing = 1
    /\ Len(inputImgs) = 2
    /\ SingleResults(inputImgs[2]) = {ret.images[2]}
    /\ ret.images[2] # generateBaseCanvas(inputImgs[2])
    /\ PreparedFor(inputImgs[2]) # preparedWM

\* ---------------------------------------------- C25: a batch call returns
\* C25: under fair scheduling every batch call with a valid configuration
\* eventually returns, for every number of images and every worker count.
C25_BatchReturns ==
    (IsBatch(op) /\ pc = "call" /\ ~ConfigInvalid) ~> (pc = "returned")

\* ------------------------------------------- C23: inputs are not written
\* C23: no step of an apply operation changes a base image or the
\* caller's watermark, and in a batch the prepared watermark is set
\* before any goroutine is started and no step changes it afterwards.
C23_InputsNotWritten ==
    [][/\ inputImgs' = inputImgs
       /\ watermarkImg' = watermarkImg
       /\ preparedWM' # preparedWM =>
            /\ pc = "call"
            /\ \A i \in DOMAIN workers : workers[i] = "idle"]_vars

\* A returned batch of two images: results drawn, opacity applied to the
\* shared watermark, inputs and watermark as they were passed.
C23_Witness ==
    /\ BatchReturned
    /\ Len(inputImgs) = 2
    /\ \A i \in 1..2 :
        /\ inputImgs[i] = BaseImage(i)
        /\ ret.images[i] # generateBaseCanvas(inputImgs[i])
    /\ watermarkImg = Uniform(2, 1, Blue)
    /\ preparedWM # watermarkImg
    /\ preparedWM # NilImage

\* ---------------------------------------- C27: one preparation per call
\* How many times the step named name was run.
Times(name) == Cardinality({i \in DOMAIN trace : trace[i].step = name})

\* C27: in one ApplyGrid call the watermark is opacity-adjusted at most
\* once (once exactly when opacity < 1), rotated at most once (once
\* exactly when rotation # 0) and resized exactly once, however many
\* positions the grid has, and every tile is drawn from that one prepared
\* watermark.
C27_PreparedOnce ==
    (pc = "returned" /\ op = "ApplyGrid" /\ ~ret.isNil) =>
        /\ Times("applyOpacity") = (IF config.OpacityAlpha < 100 THEN 1 ELSE 0)
        /\ Times("rotateImage") = (IF config.RotationDegrees # 0 THEN 1 ELSE 0)
        /\ Times("resizeWatermark") = 1
        /\ Times("applyGridWatermarks") = 1
        /\ ret.images[1] = DrawAll(generateBaseCanvas(inputImgs[1]), preparedWM,
                                   positions.positions)

C27_Witness ==
    /\ pc = "returned" /\ op = "ApplyGrid" /\ ~ret.isNil
    /\ config.OpacityAlpha = 50 /\ config.RotationDegrees = 90
    /\ Len(positions.positions) >= 6
    /\ Times("applyOpacity") = 1 /\ Times("rotateImage") = 1
    /\ Times("resizeWatermark") = 1
    /\ preparedWM.w = 2

\* --------------------------------------------- C28: opacity 1 is a no-op
\* C28: applyOpacity(img, 1.0) is pixel-identical to img, all four
\* channels of every pixel, pixels with alpha below 255 included, so that
\* skipping the step under the guard OpacityAlpha < 1 changes nothing.
C28_OpacityOneIdentity ==
    (OpacityCase /\ config.OpacityAlpha = 100) =>
        /\ ret.images[1].w = watermarkImg.w /\ ret.images[1].h = watermarkImg.h
        /\ ret.images[1].pix = watermarkImg.pix

\* --------------------------------------- C29: opacity does not compose
\* The image passed to applyOpacity with the alpha of its first pixel
\* replaced.
WithAlpha(alpha) == [watermarkImg EXCEPT !.pix[0][4] = alpha]

\* C29: there is an 8-bit alpha for which applyOpacity with 0.5 applied
\* twice gives another alpha than applyOpacity with 0.25 applied once.
C29_HalfTwiceDiffers ==
    OpacityCase =>
        \E alpha \in 0..255 :
            applyOpacity(applyOpacity(WithAlpha(alpha), 50), 50).pix[0][4]
                # applyOpacity(WithAlpha(alpha), 25).pix[0][4]

\* ------------------------------------- C30: the two revisions of the grid
\* C30: when watermark size + grid spacing is positive on both axes, the
\* revision of generateGridPositions with the offset test and the point
\* count and the revision that only loops return the same points in the
\* same order, and the count countX * countY, where it is computed (the
\* offsets lie on the canvas), is the number of points emitted.
C30_RevisionsAgree ==
    (pc # "call" /\ op = "ApplyGrid" /\ StepX > 0 /\ StepY > 0) =>
        /\ generateGridPositionsRawStep(inputImgs[1], preparedWM, config) = positions
        /\ ~OffCanvas =>
              totalPoints(inputImgs[1], preparedWM, config) = Len(positions.positions)

C30_Witness ==
    /\ pc = "returned" /\ op = "ApplyGrid"
    /\ StepX > 1 /\ StepY > 0
    /\ config.OffsetX < 0 /\ ~OffCanvas
    /\ Len(positions.positions) >= 4
    /\ totalPoints(inputImgs[1], preparedWM, config) = Len(positions.positions)
    /\ generateGridPositionsRawStep(inputImgs[1], preparedWM, config).positions
         = positions.positions

====
